---- MODULE Spec2Model ----
(***************************************************************************)
(* Model of the terminal mouse-input decoder of bubbletea (mouse.go):      *)
(* parseMouseEvents, parseSGRMouseEvents, parseX10MouseEvents and          *)
(* parseMouseButton.  A buffer is a sequence of byte values 0..255; the    *)
(* library calls the code relies on (bytes.Contains, bytes.Split,          *)
(* strconv.Atoi) are modelled by what they compute.                        *)
(***************************************************************************)
EXTENDS Integers, Sequences, FiniteSets

VARIABLES buf, reports, pc, ret, b, isSGR, m

vars == <<buf, reports, pc, ret, b, isSGR, m>>

---------------------------------------------------------------------------
(* Bounds of the model *)

\* number of chunks (a prefix or a single byte) an arbitrary buffer is made of
MaxChunks == 6
\* largest decimal button code of an encoded SGR report
MaxCode == 130
\* largest decimal coordinate of an encoded SGR report
MaxCoord == 12
\* number of back-to-back reports in one buffer
MaxReports == 3
\* button codes handed to parseMouseButton range over 0..CodeSpan (so the
\* code after the X10 offset is removed ranges over -32..CodeSpan-32)
CodeSpan == 300

---------------------------------------------------------------------------
(* Byte values *)

ByteMax == 255
ESC == 27
LBracket == 91
LessThan == 60
UpperM == 77
LowerM == 109
Semicolon == 59
DigitZero == 48
DigitNine == 57
PlusSign == 43
MinusSign == 45

x10ByteOffset == 32

bitShift == 4
bitAlt == 8
bitCtrl == 16
bitMotion == 32
bitWheel == 64
bitsMask == 3
bitsLeft == 0
bitsMiddle == 1
bitsRight == 2
bitsRelease == 3
bitsWheelUp == 0
bitsWheelDown == 1

\* seq := []byte("\x1b[<")
SGRSeq == <<ESC, LBracket, LessThan>>
\* seq := []byte("\x1b[M")
X10Seq == <<ESC, LBracket, UpperM>>

---------------------------------------------------------------------------
(* Library functions the decoder calls *)

\* bytes.Index: the 0-based index of the first occurrence of sep in s, or -1
RECURSIVE IndexFrom(_, _, _)
IndexFrom(s, sep, i) ==
    IF i + Len(sep) - 1 > Len(s) THEN -1
    ELSE IF SubSeq(s, i, i + Len(sep) - 1) = sep THEN i - 1
    ELSE IndexFrom(s, sep, i + 1)

Index(s, sep) == IndexFrom(s, sep, 1)

\* bytes.Contains
Contains(s, sep) == Index(s, sep) # -1

\* bytes.Split with a non-empty separator: the pieces between the
\* non-overlapping occurrences of sep, found left to right; always at least
\* one piece
RECURSIVE Split(_, _)
Split(s, sep) ==
    LET i == Index(s, sep) IN
    IF i = -1 THEN <<s>>
    ELSE <<SubSeq(s, 1, i)>> \o Split(SubSeq(s, i + Len(sep) + 1, Len(s)), sep)

RECURSIVE DigitsVal(_)
DigitsVal(d) ==
    IF d = <<>> THEN 0
    ELSE 10 * DigitsVal(SubSeq(d, 1, Len(d) - 1)) + (d[Len(d)] - DigitZero)

\* strconv.Atoi with its error dropped (b, _ := strconv.Atoi(..)): an optional
\* sign and one or more decimal digits; anything else yields 0.  (Strings
\* of 19 bytes or more, where Atoi saturates, are outside the bounds.)
Atoi(s) ==
    LET signed == Len(s) > 0 /\ s[1] \in {PlusSign, MinusSign}
        d == IF signed THEN Tail(s) ELSE s
    IN  IF Len(d) = 0 \/ \E i \in 1..Len(d) : d[i] \notin DigitZero..DigitNine
        THEN 0
        ELSE IF s[1] = MinusSign THEN 0 - DigitsVal(d) ELSE DigitsVal(d)

\* e & mask on Go ints (two's complement) for a mask within 0..255: only the
\* low eight bits of e can meet a bit of the mask
RECURSIVE AndBits(_, _, _)
AndBits(x, y, n) ==
    IF n = 0 THEN 0
    ELSE (IF x % 2 = 1 /\ y % 2 = 1 THEN 1 ELSE 0)
         + 2 * AndBits(x \div 2, y \div 2, n - 1)

BitAnd(e, mask) == AndBits(e % (ByteMax + 1), mask, 8)

---------------------------------------------------------------------------
(* MouseEvent and the button codec *)

MouseEventTypes ==
    {"MouseUnknown", "MouseLeft", "MouseRight", "MouseMiddle", "MouseRelease",
     "MouseWheelUp", "MouseWheelDown", "MouseMotion"}

\* var m MouseEvent: the zero value
ZeroEvent ==
    [X |-> 0, Y |-> 0, Type |-> "MouseUnknown",
     Shift |-> FALSE, Alt |-> FALSE, Ctrl |-> FALSE, Release |-> FALSE]

ButtonSwappedMiddleRight(code, sgr) ==
    LET e == IF sgr THEN code ELSE code - x10ByteOffset
        low == BitAnd(e, bitsMask)
        type ==
            IF BitAnd(e, bitWheel) # 0
            THEN IF low = bitsWheelUp THEN "MouseWheelUp"
                 ELSE IF low = bitsWheelDown THEN "MouseWheelDown"
                 ELSE "MouseUnknown"
            ELSE IF low = bitsLeft THEN "MouseLeft"
                 ELSE IF low = bitsMiddle THEN "MouseRight"
                 ELSE IF low = bitsRight THEN "MouseMiddle"
                 ELSE IF BitAnd(e, bitMotion) # 0 THEN "MouseMotion"
                 ELSE "MouseRelease"
    IN  [ZeroEvent EXCEPT !.Type = type,
                          !.Alt = BitAnd(e, bitAlt) # 0,
                          !.Ctrl = BitAnd(e, bitCtrl) # 0,
                          !.Shift = BitAnd(e, bitShift) # 0]

ButtonWheelIgnored(code, sgr) ==
    LET e == IF sgr THEN code ELSE code - x10ByteOffset
        low == BitAnd(e, bitsMask)
        type ==
            IF low = bitsLeft THEN "MouseLeft"
            ELSE IF low = bitsMiddle THEN "MouseMiddle"
            ELSE IF low = bitsRight THEN "MouseRight"
            ELSE IF BitAnd(e, bitMotion) # 0 THEN "MouseMotion"
            ELSE "MouseRelease"
    IN  [ZeroEvent EXCEPT !.Type = type,
                          !.Alt = BitAnd(e, bitAlt) # 0,
                          !.Ctrl = BitAnd(e, bitCtrl) # 0,
                          !.Shift = BitAnd(e, bitShift) # 0]

parseMouseButton(code, sgr) ==
    LET e == IF sgr THEN code ELSE code - x10ByteOffset
        low == BitAnd(e, bitsMask)
        type ==
            IF BitAnd(e, bitWheel) # 0
            THEN IF low = bitsWheelUp THEN "MouseWheelUp"
                 ELSE IF low = bitsWheelDown THEN "MouseWheelDown"
                 ELSE "MouseUnknown"
            ELSE IF low = bitsLeft THEN "MouseLeft"
                 ELSE IF low = bitsMiddle THEN "MouseMiddle"
                 ELSE IF low = bitsRight THEN "MouseRight"
                 ELSE IF BitAnd(e, bitMotion) # 0 THEN "MouseMotion"
                 ELSE "MouseRelease"
    IN  [ZeroEvent EXCEPT !.Type = type,
                          !.Alt = BitAnd(e, bitAlt) # 0,
                          !.Ctrl = BitAnd(e, bitCtrl) # 0,
                          !.Shift = BitAnd(e, bitShift) # 0]

---------------------------------------------------------------------------
(* What a call hands back: (events, error), or a runtime panic *)

Returned(events, err) == [events |-> events, err |-> err, panicked |-> FALSE]

\* an index out of range: the call does not return
Panicked == [events |-> <<>>, err |-> "", panicked |-> TRUE]

NotCalled == [events |-> <<>>, err |-> "not called", panicked |-> FALSE]

---------------------------------------------------------------------------
(* The SGR decoder *)

SGREventNoNormalize(e) ==
    [parseMouseButton(Atoi(e[1]), TRUE) EXCEPT
        !.Release = (e[3][Len(e[3])] = LowerM),
        !.X = Atoi(e[2]),
        !.Y = Atoi(SubSeq(e[3], 1, Len(e[3]) - 1)) - 1]

\* the loop body once e has three fields and e[2] is not empty
SGREvent(e) ==
    [parseMouseButton(Atoi(e[1]), TRUE) EXCEPT
        !.Release = (e[3][Len(e[3])] = LowerM),
        !.X = Atoi(e[2]) - 1,
        !.Y = Atoi(SubSeq(e[3], 1, Len(e[3]) - 1)) - 1]

RECURSIVE SGRLoopPrepend(_, _)
SGRLoopPrepend(frags, r) ==
    IF frags = <<>> THEN Returned(r, "")
    ELSE LET v == Head(frags) IN
         IF Len(v) = 0 THEN SGRLoopPrepend(Tail(frags), r)
         ELSE LET e == Split(v, <<Semicolon>>) IN
              IF Len(e) # 3 THEN Returned(<<>>, "not a SGR mouse event")
              ELSE IF Len(e[3]) = 0 THEN Panicked
              ELSE SGRLoopPrepend(Tail(frags), <<SGREvent(e)>> \o r)

\* for _, v := range bytes.Split(buf, seq) { ... }; return r, nil
RECURSIVE SGRLoop(_, _)
SGRLoop(frags, r) ==
    IF frags = <<>> THEN Returned(r, "")
    ELSE LET v == Head(frags) IN
         IF Len(v) = 0 THEN SGRLoop(Tail(frags), r)
         ELSE LET e == Split(v, <<Semicolon>>) IN
              IF Len(e) # 3 THEN Returned(<<>>, "not a SGR mouse event")
              \* e[2][len(e[2])-1] with e[2] empty: index -1 is out of range
              ELSE IF Len(e[3]) = 0 THEN Panicked
              ELSE SGRLoop(Tail(frags), Append(r, SGREvent(e)))

parseSGRMouseEvents(s) ==
    IF ~Contains(s, SGRSeq) THEN Returned(<<>>, "not a SGR mouse event")
    ELSE SGRLoop(Split(s, SGRSeq), <<>>)

---------------------------------------------------------------------------
(* The X10 decoder *)

X10EventNoOffset(v) ==
    [parseMouseButton(v[1], FALSE) EXCEPT
        !.X = v[2] - 1,
        !.Y = v[3] - 1]

\* the loop body once v has three bytes
X10Event(v) ==
    [parseMouseButton(v[1], FALSE) EXCEPT
        !.X = v[2] - x10ByteOffset - 1,
        !.Y = v[3] - x10ByteOffset - 1]

\* for _, v := range bytes.Split(buf, seq) { ... }; return r, nil
RECURSIVE X10Loop(_, _)
X10Loop(frags, r) ==
    IF frags = <<>> THEN Returned(r, "")
    ELSE LET v == Head(frags) IN
         IF Len(v) = 0 THEN X10Loop(Tail(frags), r)
         \* return r, errors.New(..): the events decoded so far go with the error
         ELSE IF Len(v) # 3 THEN Returned(r, "not an X10 mouse event")
         ELSE X10Loop(Tail(frags), Append(r, X10Event(v)))

parseX10MouseEvents(s) ==
    IF ~Contains(s, X10Seq) THEN Returned(<<>>, "not an X10 mouse event")
    ELSE X10Loop(Split(s, X10Seq), <<>>)

---------------------------------------------------------------------------
(* The dispatcher *)

DispatchX10First(s) ==
    IF Len(s) = 0 THEN Returned(<<>>, "empty buffer")
    ELSE IF Contains(s, X10Seq) THEN parseX10MouseEvents(s)
    ELSE IF Contains(s, SGRSeq) THEN parseSGRMouseEvents(s)
    ELSE Returned(<<>>, "not a mouse event")

parseMouseEvents(s) ==
    IF Len(s) = 0 THEN Returned(<<>>, "empty buffer")
    ELSE IF Contains(s, SGRSeq) THEN parseSGRMouseEvents(s)
    ELSE IF Contains(s, X10Seq) THEN parseX10MouseEvents(s)
    ELSE Returned(<<>>, "not a mouse event")

---------------------------------------------------------------------------
(* What the terminal writes: the wire formats of the two dialects *)

\* decimal text of a natural number
RECURSIVE Itoa(_)
Itoa(n) ==
    IF n < 10 THEN <<DigitZero + n>>
    ELSE Itoa(n \div 10) \o <<DigitZero + (n % 10)>>

\* ESC [ < Cb ; Cx ; Cy (M or m)
EncodeSGR(r) ==
    SGRSeq \o Itoa(r.b) \o <<Semicolon>> \o Itoa(r.cx) \o <<Semicolon>>
           \o Itoa(r.cy) \o <<r.t>>

\* ESC [M Cb Cx Cy
EncodeX10(r) == X10Seq \o <<r.cb, r.bx, r.by>>

Encode(r) == IF r.sgr THEN EncodeSGR(r) ELSE EncodeX10(r)

RECURSIVE EncodeAll(_)
EncodeAll(rs) == IF rs = <<>> THEN <<>> ELSE Encode(Head(rs)) \o EncodeAll(Tail(rs))

---------------------------------------------------------------------------
(* Inputs *)

RECURSIVE Flatten(_)
Flatten(cs) == IF cs = <<>> THEN <<>> ELSE Head(cs) \o Flatten(Tail(cs))

\* what an arbitrary buffer is put together from: the two prefixes and
\* single bytes (a separator, a digit, a terminator, a lone ESC)
Chunks == {SGRSeq, X10Seq, <<Semicolon>>, <<DigitZero + 1>>, <<LowerM>>, <<ESC>>}

Buffers == {Flatten(cs) : cs \in UNION {[1..n -> Chunks] : n \in 0..MaxChunks}}

\* every SGR report with a button code and coordinates within the bounds
SGRReports ==
    [sgr : {TRUE}, b : 0..MaxCode, cx : 1..MaxCoord, cy : 1..MaxCoord,
     t : {UpperM, LowerM}]

\* raw bytes tried next to a byte that ranges over all of 0..255
EdgeBytes == {0, ESC, 31, 32, 33, LessThan, UpperM, LBracket, 127, ByteMax}

\* X10 reports: each of the three raw bytes ranges over 0..255 while the
\* other two range over EdgeBytes
X10Reports ==
    [sgr : {FALSE}, cb : 0..ByteMax, bx : EdgeBytes, by : EdgeBytes]
    \cup [sgr : {FALSE}, cb : EdgeBytes, bx : 0..ByteMax, by : EdgeBytes]
    \cup [sgr : {FALSE}, cb : EdgeBytes, bx : EdgeBytes, by : 0..ByteMax]

\* valid reports a stream is made of: a terminal writes Cb >= 32 and
\* coordinates >= 1 (bytes >= 33) in X10, decimal numbers in SGR
StreamSGR ==
    [sgr : {TRUE}, b : {0, 35}, cx : {1, 10}, cy : {11}, t : {UpperM, LowerM}]

StreamX10 ==
    [sgr : {FALSE}, cb : {32, 97}, bx : {33, UpperM}, by : {34, ByteMax}]

Streams(R) == UNION {[1..n -> R] : n \in 1..MaxReports}

---------------------------------------------------------------------------
(* The state machine: a buffer is chosen, then decoded once *)

Idle == pc = "ready" /\ ret = NotCalled /\ m = ZeroEvent

\* an arbitrary buffer
Init ==
    /\ buf \in Buffers
    /\ reports = <<>>
    /\ b = 0 /\ isSGR = FALSE
    /\ Idle

\* a buffer holding one SGR report
InitSGR ==
    /\ \E r \in SGRReports : reports = <<r>> /\ buf = EncodeSGR(r)
    /\ b = 0 /\ isSGR = FALSE
    /\ Idle

\* a buffer holding the X10 prefix and three raw bytes
InitX10 ==
    /\ \E r \in X10Reports : reports = <<r>> /\ buf = EncodeX10(r)
    /\ b = 0 /\ isSGR = FALSE
    /\ Idle

\* a buffer holding back-to-back valid reports of one dialect
InitStream ==
    /\ reports \in Streams(StreamSGR) \cup Streams(StreamX10)
    /\ buf = EncodeAll(reports)
    /\ b = 0 /\ isSGR = FALSE
    /\ Idle

\* a button code and a dialect
InitButton ==
    /\ b \in 0..CodeSpan
    /\ isSGR \in BOOLEAN
    /\ buf = <<>> /\ reports = <<>>
    /\ Idle

\* events, err := parseMouseEvents(buf)
Decode ==
    /\ pc = "ready"
    /\ ret' = parseMouseEvents(buf)
    /\ pc' = "done"
    /\ UNCHANGED <<buf, reports, b, isSGR, m>>

\* m := parseMouseButton(b, isSGR)
DecodeButton ==
    /\ pc = "ready"
    /\ m' = parseMouseButton(b, isSGR)
    /\ pc' = "done"
    /\ UNCHANGED <<buf, reports, ret, b, isSGR>>

Next == Decode

NextButton == DecodeButton

Spec == Init /\ [][Next]_vars

SpecSGR == InitSGR /\ [][Next]_vars

SpecX10 == InitX10 /\ [][Next]_vars

SpecStream == InitStream /\ [][Next]_vars

SpecButton == InitButton /\ [][NextButton]_vars

TypeOK ==
    /\ pc \in {"ready", "done"}
    /\ m.Type \in MouseEventTypes
    /\ \A i \in 1..Len(buf) : buf[i] \in 0..ByteMax
    /\ \A i \in 1..Len(ret.events) : ret.events[i].Type \in MouseEventTypes

---------------------------------------------------------------------------
(* Vocabulary of the properties, stated on the bytes of the buffer *)

\* the 1-based positions at which the three-byte prefix p stands in s
Occ(s, p) ==
    {i \in 1..Len(s) :
        i + 2 <= Len(s) /\ s[i] = p[1] /\ s[i + 1] = p[2] /\ s[i + 2] = p[3]}

\* the prefix of the dialect the buffer is decoded in
DialectSeq(s) == IF Occ(s, SGRSeq) # {} THEN SGRSeq ELSE X10Seq

\* the bytes between the occurrence of p at i and the next occurrence of p
\* (or the end of the buffer)
Payload(s, p, i) ==
    LET later == {j \in Occ(s, p) : j > i}
        stop == IF later = {} THEN Len(s) + 1
                ELSE CHOOSE j \in later : \A k \in later : j <= k
    IN  SubSeq(s, i + 3, stop - 1)

\* SGR: exactly three ';'-delimited fields; X10: exactly three bytes
ShapeOK(p, v) ==
    IF p = SGRSeq
    THEN Cardinality({i \in 1..Len(v) : v[i] = Semicolon}) = 2
    ELSE Len(v) = 3

MalformedSequence(p) ==
    IF p = SGRSeq THEN "not a SGR mouse event" ELSE "not an X10 mouse event"

\* whether bit k (a power of two) is set in the two's complement of e
BitSet(e, k) == (e \div k) % 2 = 1

\* the button code after the dialect's offset is removed
OffsetRemoved == IF isSGR THEN b ELSE b - 32

SameButton(ev, mb) ==
    /\ ev.Type = mb.Type
    /\ ev.Shift = mb.Shift
    /\ ev.Alt = mb.Alt
    /\ ev.Ctrl = mb.Ctrl

\* the three raw bytes of an X10 report are themselves a mouse prefix
RawBytesArePrefix(r) == <<r.cb, r.bx, r.by>> \in {SGRSeq, X10Seq}

---------------------------------------------------------------------------
(* Properties *)

\* C1: parseMouseEvents fails with "empty buffer" on a buffer of length 0;
\* else, if ESC [ < stands anywhere in the buffer, its result is the SGR
\* decoder's on the whole buffer (also when ESC [ M stands in it too); else,
\* if ESC [ M stands in it, the X10 decoder's; else it fails with
\* "not a mouse event".
C1_Dispatch ==
    pc = "done" =>
        IF Len(buf) = 0 THEN ret = Returned(<<>>, "empty buffer")
        ELSE IF Occ(buf, SGRSeq) # {} THEN ret = parseSGRMouseEvents(buf)
        ELSE IF Occ(buf, X10Seq) # {} THEN ret = parseX10MouseEvents(buf)
        ELSE ret = Returned(<<>>, "not a mouse event")

\* a buffer with the X10 prefix ahead of the SGR prefix, decoded as SGR, where
\* the X10 decoder would have answered otherwise
C1_Witness ==
    /\ pc = "done"
    /\ Occ(buf, SGRSeq) # {} /\ Occ(buf, X10Seq) # {}
    /\ \E i \in Occ(buf, X10Seq) : \A j \in Occ(buf, SGRSeq) : i < j
    /\ ret = parseSGRMouseEvents(buf)
    /\ ret # parseX10MouseEvents(buf)

\* C2: a buffer holding one SGR sequence ESC [ < b ; cx ; cy t decodes to
\* exactly one event with X = cx-1, Y = cy-1, Release = (t = 'm') and the
\* type and modifiers of the button codec on b, no offset subtracted.
C2_SGRDecode ==
    pc = "done" =>
        LET r == reports[1] IN
        /\ ~ret.panicked /\ ret.err = ""
        /\ Len(ret.events) = 1
        /\ ret.events[1].X = r.cx - 1
        /\ ret.events[1].Y = r.cy - 1
        /\ ret.events[1].Release = (r.t = LowerM)
        /\ SameButton(ret.events[1], parseMouseButton(r.b, TRUE))

\* a release report with a three-digit button code and two-digit coordinates
C2_Witness ==
    /\ pc = "done"
    /\ reports[1].b = 100 /\ reports[1].cx = 12 /\ reports[1].cy = 10
    /\ reports[1].t = LowerM
    /\ Len(ret.events) = 1
    /\ ret.events[1].X = 11 /\ ret.events[1].Y = 9 /\ ret.events[1].Release
    /\ ret.events[1].Type = "MouseWheelUp"

\* C3: a buffer holding ESC [ M and three raw bytes (cb, bx, by) that are not
\* themselves a mouse prefix decodes to exactly one event with X = bx-32-1,
\* Y = by-32-1, Release = false and the type and modifiers of the button
\* codec on cb-32; bytes below 33 give negative coordinates, not an error.
C3_X10Decode ==
    pc = "done" /\ ~RawBytesArePrefix(reports[1]) =>
        LET r == reports[1] IN
        /\ ~ret.panicked /\ ret.err = ""
        /\ Len(ret.events) = 1
        /\ ret.events[1].X = r.bx - 32 - 1
        /\ ret.events[1].Y = r.by - 32 - 1
        /\ ret.events[1].Release = FALSE
        /\ SameButton(ret.events[1], parseMouseButton(r.cb - 32, TRUE))

\* raw bytes below the offset: negative coordinates are passed through
C3_Witness ==
    /\ pc = "done"
    /\ reports[1].cb = 0 /\ reports[1].bx = 0 /\ reports[1].by = 31
    /\ ret.err = "" /\ Len(ret.events) = 1
    /\ ret.events[1].X = -33 /\ ret.events[1].Y = -2

\* C4 as stated: a button code with the wheel bit 0b0100_0000 set decodes to
\* WheelUp or WheelDown, whatever its other bits are.
C4_WheelAlways ==
    pc = "done" /\ BitSet(OffsetRemoved, 64) =>
        m.Type \in {"MouseWheelUp", "MouseWheelDown"}

\* C4 amended: with the wheel bit set the type is WheelUp when the low two
\* bits are 00, WheelDown when they are 01, and Unknown when they are 10 or
\* 11; it is never a button, Release or Motion.
C4_WheelAmended ==
    pc = "done" /\ BitSet(OffsetRemoved, 64) =>
        m.Type = CASE OffsetRemoved % 4 = 0 -> "MouseWheelUp"
                   [] OffsetRemoved % 4 = 1 -> "MouseWheelDown"
                   [] OTHER -> "MouseUnknown"

\* wheel bit with low bits 10 and the motion bit: the type stays Unknown
C4_Witness ==
    /\ pc = "done"
    /\ BitSet(OffsetRemoved, 64) /\ BitSet(OffsetRemoved, 32)
    /\ OffsetRemoved % 4 = 2
    /\ m.Type = "MouseUnknown"

\* C5: with the wheel bit clear the low two bits fix the type: 00 Left,
\* 01 Middle, 10 Right, 11 Motion when the motion bit 0b0010_0000 is set and
\* Release when not; a drag (motion bit with 00, 01, 10) keeps the button.
\* For every code Shift, Alt and Ctrl are the bits 4, 8 and 16.
C5_ButtonBits ==
    pc = "done" =>
        LET e == OffsetRemoved IN
        /\ ~BitSet(e, 64) =>
              m.Type = CASE e % 4 = 0 -> "MouseLeft"
                         [] e % 4 = 1 -> "MouseMiddle"
                         [] e % 4 = 2 -> "MouseRight"
                         [] OTHER -> IF BitSet(e, 32) THEN "MouseMotion"
                                     ELSE "MouseRelease"
        /\ m.Shift = BitSet(e, 4)
        /\ m.Alt = BitSet(e, 8)
        /\ m.Ctrl = BitSet(e, 16)

\* a drag of the middle button with shift and ctrl, not alt, in X10
C5_Witness ==
    /\ pc = "done" /\ ~isSGR
    /\ OffsetRemoved = 32 + 1 + 4 + 16
    /\ m.Type = "MouseMiddle"
    /\ m.Shift /\ m.Ctrl /\ ~m.Alt

\* C6: when an occurrence of the buffer's dialect prefix is not followed by
\* a payload of the expected shape (SGR: three ';'-delimited fields, X10:
\* three bytes), an empty payload included, decoding fails with that
\* dialect's malformed-sequence error.
C6_MalformedPayload ==
    LET p == DialectSeq(buf) IN
    pc = "done" /\ (\E i \in Occ(buf, p) : ~ShapeOK(p, Payload(buf, p, i))) =>
        ~ret.panicked /\ ret.err = MalformedSequence(p)

\* C7: a call returns events or an error for every buffer; none makes it
\* abort with a runtime panic.
C7_NoPanic == pc = "done" => ~ret.panicked

\* C8: a buffer of n back-to-back valid sequences of one dialect decodes to
\* n events, the i-th the decoding of the i-th sequence alone, and for every
\* cut of the buffer between two sequences decode(s1 ++ s2) is decode(s1)
\* followed by decode(s2).
C8_Compositional ==
    pc = "done" =>
        /\ ~ret.panicked /\ ret.err = ""
        /\ Len(ret.events) = Len(reports)
        /\ \A i \in 1..Len(reports) :
              LET one == parseMouseEvents(Encode(reports[i])) IN
              one.err = "" /\ one.events = <<ret.events[i]>>
        /\ \A k \in 1..(Len(reports) - 1) :
              LET r1 == parseMouseEvents(EncodeAll(SubSeq(reports, 1, k)))
                  r2 == parseMouseEvents(
                            EncodeAll(SubSeq(reports, k + 1, Len(reports))))
              IN  /\ r1.err = "" /\ r2.err = ""
                  /\ ret.events = r1.events \o r2.events

\* three SGR sequences decoded to three different events, in order
C8_Witness ==
    /\ pc = "done"
    /\ Len(reports) = 3 /\ reports[1].sgr
    /\ Len(ret.events) = 3
    /\ ret.events[1] # ret.events[2] /\ ret.events[2] # ret.events[3]
    /\ ret.events[1] # ret.events[3]
    /\ ret.events[3].X = reports[3].cx - 1

\* C9: a call that returns an error returns no events with it.
C9_EventsOrError ==
    pc = "done" /\ ~ret.panicked /\ ret.err # "" => ret.events = <<>>

\* C10: every event of a successful result is decoded from bytes that
\* directly follow an occurrence of the dialect's prefix: there are no more
\* events than occurrences of the prefix with bytes after them, and so no
\* more than occurrences of the prefix.
C10_EventsFollowPrefix ==
    LET p == DialectSeq(buf) IN
    pc = "done" /\ ~ret.panicked /\ ret.err = "" =>
        Len(ret.events)
            <= Cardinality({i \in Occ(buf, p) : Payload(buf, p, i) # <<>>})

====
